---- MODULE Spec2Model ----
(***************************************************************************)
(* A model of the fetch-and-cache orchestration of p16-dashboard:          *)
(*   loaders/data_loader.py   DataLoader (cache reads)                     *)
(*   data_manager.py          DataManager (freshness, merge, persistence)  *)
(*   fetchers/github_fetcher.py  the reductions of upstream events         *)
(*   app.py                   get_data (the dashboard's data load)         *)
(*                                                                         *)
(* A date is a day number, a series row is <<date, value>>, a DataFrame is *)
(* a record of its column names and its rows, and a cache file is a record *)
(* of what pd.read_csv finds in it.                                        *)
(***************************************************************************)
EXTENDS Integers, Sequences, FiniteSets, TLC

VARIABLES
    focus,       \* the metric type whose upstream and cache files vary in this run
    repoFile,    \* data/{owner}_{repo}_{base}: metric type -> file
    legacyFile,  \* data/{base}, the non-repository-qualified file: metric type -> file
    mtime,       \* os.path.getmtime of each repository-specific file, in hours
    now,         \* time.time(), in hours
    pc,          \* position of the running call: "idle", or a step of a handler
    call,        \* the running call: operation and arguments
    idx,         \* loop position in the list of metric types
    cur,         \* the metric whose resolution ran last in this call
    result,      \* the result dict under construction: metric type -> DataFrame or NoEntry
    cached,      \* local `cached` of the metric being resolved
    fresh,       \* local `fresh` of the metric being resolved
    fetched,     \* whether the metric being resolved called upstream
    wrote,       \* the last write of the metric being resolved that succeeded:
                 \* "fresh", "merged", or "none"
    pre,         \* the metric's repository-specific file and its mtime when its resolution began
    events,      \* the events the hosting API lists for the focus metric, in listing order
    page,        \* the loop counter of a running fetch: pages requested, queries sent
    collected,   \* local `dates` of a running fetch: the timestamps appended so far
    received,    \* the items the responses have delivered to the running fetch
    attempt,     \* `attempt` of the running _request, counted from 1
    backoff_s,   \* local `backoff_s` of the running _request
    slept,       \* the time.sleep calls of the running _request, in seconds
    resp,        \* the response _request or GitHubGraphQL.query came back with
    log,         \* the status of the response to each page of the running fetch
    series,      \* per transport, the series its last fetch returned when no page failed
    calls,       \* the upstream fetch calls made for the metric being resolved
    saves        \* the to_csv calls that wrote the file of the metric being resolved

\* the state of the fetchers
fetchVars == <<events, page, collected, received, attempt, backoff_s, slept, resp,
               log, series>>

vars == <<focus, repoFile, legacyFile, mtime, now, pc, call, idx, cur, result,
          cached, fresh, fetched, wrote, pre, events, page, collected, received,
          attempt, backoff_s, slept, resp, log, series, calls, saves>>

\* the input and output done for the metric being resolved, counted where a
\* resolution is taken one call at a time
ioVars == <<calls, saves>>

(***************************************************************************)
(* Bounds of the model.                                                    *)
(***************************************************************************)
MaxDate == 2
MaxEvents == 2
HoursPerTick == 25

\* DataManager(data_dir="data", refresh_threshold_hours=24)
refresh_threshold_hours == 24

\* the days upstream events fall on
Dates == 1..MaxDate

\* the date ranges a request may name: it starts at the first day or after
\* it, and ends at the last day upstream has events for or after it (today)
ReqStarts == {1, MaxDate}
ReqEnds == {MaxDate, MaxDate + 1}
\* a date string pd.to_datetime(errors="coerce") turns into NaT
NaT == 0

(***************************************************************************)
(* Metric types and their schemas.                                         *)
(***************************************************************************)
\* DataManager.types, in the order the batch loops walk them
types == <<"stars", "forks", "prs", "downloads", "issues", "contributions">>

Types == {types[i] : i \in 1..Len(types)}

\* the value column of each metric in the expected-columns tables
value_col(t) ==
    CASE t = "stars" -> "stars"
      [] t = "forks" -> "forks"
      [] t = "prs" -> "pr_count"
      [] t = "downloads" -> "downloads"
      [] t = "issues" -> "issues"
      [] t = "contributions" -> "commits"

\* expected_cols of _fetch_and_save_data and the column lists of the empty frames
expected_cols(t) == <<"date", value_col(t)>>

Range(s) == {s[i] : i \in 1..Len(s)}

\* pd.DataFrame(columns=cols)
EmptyFrame(cols) == [columns |-> cols, rows |-> <<>>]

Date(r) == r[1]
Value(r) == r[2]
DatesOf(rows) == {Date(rows[i]) : i \in 1..Len(rows)}

(***************************************************************************)
(* Files.  kind "absent": os.path.exists is false; "zero": a zero-length   *)
(* file; "garbled": text pd.read_csv cannot tokenize; "csv": a header line *)
(* (columns) and data rows.                                                *)
(***************************************************************************)
Absent == [kind |-> "absent", columns |-> <<>>, rows |-> <<>>]
ZeroLength == [kind |-> "zero", columns |-> <<>>, rows |-> <<>>]
Garbled == [kind |-> "garbled", columns |-> <<>>, rows |-> <<>>]
Csv(cols, rows) == [kind |-> "csv", columns |-> cols, rows |-> rows]

exists(f) == f.kind # "absent"

\* an outcome of a call that may raise
Ok(df) == [raised |-> FALSE, df |-> df]
Raise == [raised |-> TRUE, df |-> EmptyFrame(<<>>)]

\* pd.read_csv(path): EmptyDataError on a zero-length file, ParserError on
\* text it cannot tokenize, else the table
read_csv(f) ==
    IF f.kind = "csv" THEN Ok([columns |-> f.columns, rows |-> f.rows]) ELSE Raise

\* df.to_csv(path, index=False): the file becomes the header and the rows
to_csv(df) == Csv(df.columns, df.rows)

(***************************************************************************)
(* sort_values("date"): a stable insertion sort on the date.               *)
(***************************************************************************)
RECURSIVE InsertByDate(_, _)
InsertByDate(r, s) ==
    IF s = <<>> THEN <<r>>
    ELSE IF Date(r) < Date(Head(s)) THEN <<r>> \o s
    ELSE <<Head(s)>> \o InsertByDate(r, Tail(s))

RECURSIVE sort_values(_)
sort_values(rows) ==
    IF rows = <<>> THEN <<>>
    ELSE LET n == Len(rows)
         IN  InsertByDate(rows[n], sort_values(SubSeq(rows, 1, n - 1)))

\* df["date"] = pd.to_datetime(df["date"], errors="coerce"); df.dropna(subset=["date"])
dropna(rows) == SelectSeq(rows, LAMBDA r : Date(r) # NaT)

\* the parse step shared by DataLoader.get and DataLoader.get_for
parse_dates(df) == [columns |-> df.columns, rows |-> sort_values(dropna(df.rows))]

\* the `expected` sets of the loader
expected(t) == {"date", value_col(t)}

\* expected.issubset(set(df.columns))
has_expected(t, df) == expected(t) \subseteq Range(df.columns)

\* a schema table keyed by the metric's name instead of its value column
columns_misnamed(t) == <<"date", t>>

\* the final `columns` table of get_for and the one of get: the schema of the
\* empty frame a read falls back to
columns(t) == expected_cols(t)

(***************************************************************************)
(* DataLoader.get_for(data_type, owner, repo), on the repository-specific  *)
(* file rf and the legacy file lf.                                         *)
(***************************************************************************)
\* the condition under which the repository-specific table is used
repo_usable(df) == df.rows # <<>> /\ Len(df.rows) > 1

get_for_generic(t, lf) ==
    IF exists(lf)
    THEN LET g == read_csv(lf)
         IN  IF g.raised THEN Raise
             ELSE IF has_expected(t, g.df) THEN Ok(parse_dates(g.df))
             ELSE Ok(EmptyFrame(columns(t)))
    ELSE Ok(EmptyFrame(columns(t)))

get_for(t, rf, lf) ==
    IF exists(rf)
    THEN LET r == read_csv(rf)
         IN  IF r.raised THEN Raise
             ELSE IF repo_usable(r.df) /\ has_expected(t, r.df)
                  THEN Ok(parse_dates(r.df))
                  ELSE get_for_generic(t, lf)
    ELSE get_for_generic(t, lf)

(***************************************************************************)
(* DataLoader.get(data_type): the legacy file only.  list(expected) lists  *)
(* a set of strings, so the order of the two columns of the frame returned *)
(* on a schema mismatch is either one: get is the set of possible outcomes.*)
(***************************************************************************)
get(t, lf) ==
    IF ~exists(lf) THEN {Ok(EmptyFrame(columns(t)))}
    ELSE LET g == read_csv(lf)
         IN  IF g.raised THEN {Raise}
             ELSE IF ~has_expected(t, g.df)
                  THEN {Ok(EmptyFrame(<<"date", value_col(t)>>)),
                        Ok(EmptyFrame(<<value_col(t), "date">>))}
                  ELSE {Ok(parse_dates(g.df))}

(***************************************************************************)
(* The reductions of the fetchers (fetchers/github_fetcher.py): what each  *)
(* fetch makes of the items its requests collected.                        *)
(***************************************************************************)
RECURSIVE SumAt(_, _)
\* the sum of the values of the rows of date d
SumAt(rows, d) ==
    IF rows = <<>> THEN 0
    ELSE (IF Date(Head(rows)) = d THEN Value(Head(rows)) ELSE 0) + SumAt(Tail(rows), d)

Min(S) == CHOOSE x \in S : \A y \in S : x <= y

RECURSIVE Ascending(_)
\* the elements of a set of dates in ascending order
Ascending(S) ==
    IF S = {} THEN <<>> ELSE <<Min(S)>> \o Ascending(S \ {Min(S)})

\* df.groupby("date", as_index=False)[col].sum().sort_values("date")
groupby_sum(rows) ==
    LET ds == Ascending(DatesOf(rows))
    IN  [i \in 1..Len(ds) |-> <<ds[i], SumAt(rows, ds[i])>>]

RECURSIVE RunningSum(_, _)
RunningSum(rows, acc) ==
    IF rows = <<>> THEN <<>>
    ELSE <<(<<Date(Head(rows)), acc + Value(Head(rows))>>)>>
         \o RunningSum(Tail(rows), acc + Value(Head(rows)))

\* daily[col].cumsum()
cumsum(rows) == RunningSum(rows, 0)

\* pd.DataFrame({"date": dates, "delta": 1})
deltas(dates) == [i \in 1..Len(dates) |-> <<dates[i], 1>>]

\* StarsFetcher.fetch / ForksFetcher.fetch after the page loop: cumulative
\* count by date of the collected timestamps
cumulative_fetch(t, dates) ==
    IF dates = <<>> THEN EmptyFrame(<<"date", value_col(t)>>)
    ELSE [columns |-> <<"date", value_col(t)>>,
          rows |-> cumsum(groupby_sum(deltas(dates)))]

\* PRsFetcher.fetch after the page loop: daily count by date
daily_fetch(t, dates) ==
    IF dates = <<>> THEN EmptyFrame(<<"date", value_col(t)>>)
    ELSE [columns |-> <<"date", value_col(t)>>,
          rows |-> groupby_sum(deltas(dates))]

\* an issues loop that skips nothing: the pull requests are counted too
issue_dates_unfiltered(items) ==
    [i \in 1..Len(items) |-> items[i][1]]

\* IssuesFetcher.fetch: an item is <<created date, is a pull request>>; the
\* items flagged as pull requests are skipped
issue_dates(items) ==
    LET kept == SelectSeq(items, LAMBDA it : ~it[2])
    IN  [i \in 1..Len(kept) |-> kept[i][1]]

\* DownloadsFetcher.fetch: an asset is <<created date or NaT, download_count>>
downloads_fetch(assets) ==
    IF assets = <<>> THEN EmptyFrame(<<"date", "downloads">>)
    ELSE [columns |-> <<"date", "downloads">>,
          rows |-> cumsum(groupby_sum(sort_values(dropna(assets))))]

RECURSIVE week_rows(_, _, _)
\* the (date, count) pairs of one weekly bucket: day i at base + i
week_rows(base, days, i) ==
    IF i > Len(days) THEN <<>>
    ELSE <<(<<base + (i - 1), days[i]>>)>> \o week_rows(base, days, i + 1)

RECURSIVE all_week_rows(_)
all_week_rows(weeks) ==
    IF weeks = <<>> THEN <<>>
    ELSE week_rows(Head(weeks)[1], Head(weeks)[2], 1) \o all_week_rows(Tail(weeks))

\* ContributionsFetcher.fetch on a 200 response: a week is <<start day, days>>
contributions_fetch(weeks) ==
    LET rows == all_week_rows(weeks)
    IN  IF rows = <<>> THEN EmptyFrame(<<"date", "commits">>)
        ELSE [columns |-> <<"date", "commits">>, rows |-> sort_values(rows)]

(***************************************************************************)
(* What upstream may answer to one fetch of metric t, within the bounds.   *)
(***************************************************************************)
SeqsUpTo(S, n) == UNION {[1..k -> S] : k \in 0..n}

\* the download_count of a release asset
AssetCounts == {2}

\* the daily breakdowns of a weekly bucket, a week being cut down to one day
DayLists == {<<0>>, <<1>>}

\* the stats API buckets commits by week: no two buckets of a response
\* start on the same day
DistinctWeeks(weeks) ==
    \A i, j \in 1..Len(weeks) : i # j => weeks[i][1] # weeks[j][1]

Payloads(t) ==
    CASE t \in {"stars", "forks", "prs"} -> SeqsUpTo(Dates, MaxEvents)
      [] t = "issues" -> SeqsUpTo(Dates \X BOOLEAN, MaxEvents)
      [] t = "downloads" -> SeqsUpTo(Dates \X AssetCounts, MaxEvents)
      [] t = "contributions" ->
            {w \in SeqsUpTo(Dates \X DayLists, MaxEvents) : DistinctWeeks(w)}

\* the frame the metric's fetcher returns for the items collected
fetch(t, items) ==
    CASE t \in {"stars", "forks"} -> cumulative_fetch(t, items)
      [] t = "prs" -> daily_fetch(t, items)
      [] t = "issues" -> daily_fetch(t, issue_dates(items))
      [] t = "downloads" -> downloads_fetch(items)
      [] t = "contributions" -> contributions_fetch(items)

(***************************************************************************)
(* DataManager (data_manager.py).                                          *)
(***************************************************************************)
\* _is_data_stale(path), for the file f last modified at m, at time n
is_data_stale(f, m, n) ==
    IF ~exists(f) THEN TRUE ELSE (n - m) > refresh_threshold_hours

RECURSIVE DropSeen(_, _)
DropSeen(rows, seen) ==
    IF rows = <<>> THEN <<>>
    ELSE IF Date(Head(rows)) \in seen THEN DropSeen(Tail(rows), seen)
    ELSE <<Head(rows)>> \o DropSeen(Tail(rows), seen \cup {Date(Head(rows))})

\* merged.drop_duplicates(subset=["date"]): the first row of each date is kept
drop_duplicates(rows) == DropSeen(rows, {})

\* the columns of pd.concat([a, b]): those of a, then those only b has
concat_columns(a, b) == a \o SelectSeq(b, LAMBDA c : c \notin Range(a))

\* a merge that concatenates and sorts but drops no duplicate date
merge_keeps_duplicates(c, f) ==
    IF c.rows = <<>> THEN f
    ELSE [columns |-> concat_columns(c.columns, f.columns),
          rows |-> sort_values(c.rows \o f.rows)]

\* the merge of get_all_cached_data_for_range: fresh when nothing was cached,
\* else concat, drop_duplicates on the date, sort_values on the date
merge(c, f) ==
    IF c.rows = <<>> THEN f
    ELSE [columns |-> concat_columns(c.columns, f.columns),
          rows |-> sort_values(drop_duplicates(c.rows \o f.rows))]

MinDate(rows) == Min(DatesOf(rows))
MaxDateOf(rows) == CHOOSE x \in DatesOf(rows) : \A y \in DatesOf(rows) : y <= x

\* range_covered of get_all_cached_data_for_range, for a non-empty cached frame
range_covered(c, start, end, stale) ==
    MinDate(c.rows) <= start /\ MaxDateOf(c.rows) >= end /\ ~stale

\* `cached` of get_all_cached_data_for_range: a cache read when the
\* repository-specific file exists, else an empty frame of the metric's schema
load_cached(t, rf, lf) ==
    IF exists(rf) THEN get_for(t, rf, lf) ELSE Ok(EmptyFrame(expected_cols(t)))

\* need_fetch of get_all_cached_data_for_range
need_fetch(c, force, start, end, stale) ==
    force \/ c.rows = <<>> \/ ~range_covered(c, start, end, stale)

\* the decision of get_data: fetch when forced or when the file is stale
get_data_fetches(force, stale) == force \/ stale

\* df[[c for c in expected_cols if c in df.columns]] of _fetch_and_save_data
select_expected(t, df) ==
    [columns |-> SelectSeq(expected_cols(t), LAMBDA c : c \in Range(df.columns)),
     rows |-> df.rows]

\* how the writes of a resolution of metric t may end, last being its last
\* write: all succeed, or, when storage is failing (under the files of the
\* focus metric), any of them raises
WriteOutcomes(t, last, failing) ==
    IF failing /\ t = focus THEN {"none", "fresh", last} ELSE {last}

\* a refresh that leaves the file alone when the fetch came back empty
written_unless_empty(f, fr, merged, w) ==
    IF fr.rows = <<>> THEN f
    ELSE IF w = "merged" THEN to_csv(merged)
    ELSE IF w = "fresh" THEN to_csv(fr)
    ELSE f

\* the file after the two writes of a range resolution that fetched, f being
\* what it held before: df.to_csv of _fetch_and_save_data writes the fetched
\* frame and merged.to_csv the merged one, each inside a try/except that logs
\* a failure; w names the last write that succeeded
written(f, fr, merged, w) ==
    IF w = "merged" THEN to_csv(merged)
    ELSE IF w = "fresh" THEN to_csv(fr)
    ELSE f

\* the alternatives of get_data: _fetch_and_save_data (fetch, write, return
\* what was fetched) when forced or stale, else _load_data.  An outcome names
\* what is returned, the file and mtime left behind, and the locals.
get_data_outcomes(t, force, rf, lf, m, n, upstream, writes) ==
    IF get_data_fetches(force, is_data_stale(rf, m, n))
    THEN {IF u.raised
          THEN [raised |-> TRUE, df |-> u.df, file |-> rf, mtime |-> m,
                fetched |-> TRUE, wrote |-> "none"]
          ELSE IF w = "fresh"
          THEN [raised |-> FALSE, df |-> select_expected(t, u.df),
                file |-> to_csv(select_expected(t, u.df)), mtime |-> n,
                fetched |-> TRUE, wrote |-> "fresh"]
          ELSE [raised |-> FALSE, df |-> select_expected(t, u.df),
                file |-> rf, mtime |-> m,
                fetched |-> TRUE, wrote |-> "none"] :
                    u \in upstream, w \in writes}
    ELSE LET c == get_for(t, rf, lf)
         IN  {[raised |-> c.raised, df |-> c.df, file |-> rf, mtime |-> m,
               fetched |-> FALSE, wrote |-> "none"]}

\* an except branch that names the value column after the metric
app_empty_misnamed(t) == EmptyFrame(<<"date", t>>)

\* the frame app.get_data puts in the result when a metric's resolution raised
app_empty(t) == EmptyFrame(<<"date", value_col(t)>>)

(***************************************************************************)
(* The state machine.  A call runs from "idle" through the steps of its    *)
(* handler to "returned" or "raised" (an exception left the handler), and  *)
(* Finish hands control back.  One metric is resolved per step.            *)
(***************************************************************************)
\* no frame: a result entry not assigned, a local not bound
NoEntry == [columns |-> <<"<unset>">>, rows |-> <<>>]

NoCall == [op |-> "none", force |-> FALSE, start |-> 0, end |-> 0, token |-> FALSE]

NoPre == [file |-> Absent, mtime |-> 0]

\* what one fetch of metric t may come back with: an exception out of the
\* request, or the reduction of the items collected.  Upstream holds events
\* for the focus metric only.
UpstreamOutcomes(t) ==
    IF t = focus
    THEN {Raise} \cup {Ok(fetch(t, items)) : items \in Payloads(t)}
    ELSE {Ok(fetch(t, <<>>))}

\* a file some other tool left under the cache's name, with another schema
BadSchema == Csv(<<"date", "count">>, <<<<1, 1>>, <<2, 1>>>>)

\* the legacy file the standalone fetch scripts write
LegacySeries(t) == Csv(expected_cols(t), <<<<2, 2>>>>)

Blank == [t \in Types |-> NoEntry]

\* no response received
NoResp == [status |-> 0, items |-> <<>>, hasNextPage |-> FALSE]

\* no fetch has returned yet, on either transport
NoSeries == [rest |-> NoEntry, graphql |-> NoEntry]

InitCommon ==
    /\ mtime = [t \in Types |-> 0]
    /\ now = 0
    /\ pc = "idle"
    /\ call = NoCall
    /\ idx = 0
    /\ cur = "none"
    /\ result = Blank
    /\ cached = NoEntry
    /\ fresh = NoEntry
    /\ fetched = FALSE
    /\ wrote = "none"
    /\ pre = NoPre
    /\ page = 0
    /\ collected = <<>>
    /\ received = <<>>
    /\ attempt = 0
    /\ backoff_s = 0
    /\ slept = <<>>
    /\ resp = NoResp
    /\ log = <<>>
    /\ series = NoSeries
    /\ calls = 0
    /\ saves = 0

\* the data directory before the first call: the focus metric's files are
\* absent or left by an earlier run or another tool
Init ==
    /\ focus \in Types
    /\ \E f \in {Absent, ZeroLength, BadSchema} :
         repoFile = [t \in Types |-> IF t = focus THEN f ELSE Absent]
    /\ \E f \in {Absent, LegacySeries(focus)} :
         legacyFile = [t \in Types |-> IF t = focus THEN f ELSE Absent]
    /\ events = <<>>
    /\ InitCommon

\* the locals of the resolution of metric t
SetLocals(t, c, fr, f, w) ==
    /\ cur' = t
    /\ cached' = c
    /\ fresh' = fr
    /\ fetched' = f
    /\ wrote' = w
    /\ pre' = [file |-> repoFile[t], mtime |-> mtime[t]]

\* an exception leaves the handler: nothing is returned
Raises == pc' = "raised" /\ UNCHANGED <<repoFile, mtime, result, idx>>

Begin(c, p) ==
    /\ pc' = p
    /\ call' = c
    /\ idx' = 1
    /\ UNCHANGED <<focus, repoFile, legacyFile, mtime, now, cur, result,
                   cached, fresh, fetched, wrote, pre>>
    /\ UNCHANGED fetchVars
    /\ UNCHANGED ioVars

(***************************************************************************)
(* DataManager.get_all_cached_data_for_range(owner, repo, start_date,      *)
(* end_date, force_refresh).                                               *)
(***************************************************************************)
RangeBegin ==
    /\ pc = "idle"
    /\ \E force \in BOOLEAN, start \in ReqStarts, end \in ReqEnds :
        /\ start <= end
        /\ Begin([op |-> "range", force |-> force, start |-> start,
                  end |-> end, token |-> FALSE], "range")

\* one pass of the loop body: read the cache, decide, and when a fetch is
\* needed fetch, write, merge, write again and store the merged frame;
\* outcomes is what the fetch of the metric may come back with
RangeStep(outcomes, failing) ==
    /\ pc = "range"
    /\ idx <= Len(types)
    /\ LET t == types[idx]
           c == load_cached(t, repoFile[t], legacyFile[t])
           stale == is_data_stale(repoFile[t], mtime[t], now)
       IN  IF c.raised
           THEN Raises /\ SetLocals(t, NoEntry, NoEntry, FALSE, "none")
           ELSE IF need_fetch(c.df, call.force, call.start, call.end, stale)
           THEN \E u \in outcomes :
                  IF u.raised
                  THEN Raises /\ SetLocals(t, c.df, NoEntry, TRUE, "none")
                  ELSE LET fr == select_expected(t, u.df)
                           merged == merge(c.df, fr)
                       IN  \E w \in WriteOutcomes(t, "merged", failing) :
                           /\ repoFile' = [repoFile EXCEPT ![t] =
                                  written(repoFile[t], fr, merged, w)]
                           /\ mtime' = [mtime EXCEPT ![t] =
                                  IF w = "none" THEN mtime[t] ELSE now]
                           /\ result' = [result EXCEPT ![t] = merged]
                           /\ idx' = idx + 1
                           /\ SetLocals(t, c.df, fr, TRUE, w)
                           /\ UNCHANGED pc
           ELSE /\ result' = [result EXCEPT ![t] = c.df]
                /\ idx' = idx + 1
                /\ SetLocals(t, c.df, NoEntry, FALSE, "none")
                /\ UNCHANGED <<repoFile, mtime, pc>>
    /\ UNCHANGED <<focus, legacyFile, now, call>>
    /\ UNCHANGED fetchVars
    /\ UNCHANGED ioVars

\* the loop body while the data directory takes every write
RangeResolve ==
    /\ pc = "range"
    /\ idx <= Len(types)
    /\ RangeStep(UpstreamOutcomes(types[idx]), FALSE)

\* `return result` of a batch, after the last metric
Return ==
    /\ pc \in {"range", "all", "app"}
    /\ idx > Len(types)
    /\ pc' = "returned"
    /\ UNCHANGED <<focus, repoFile, legacyFile, mtime, now, call, idx, cur,
                   result, cached, fresh, fetched, wrote, pre>>
    /\ UNCHANGED fetchVars
    /\ UNCHANGED ioVars

\* the caller takes the result or the exception; the call's locals go
Finish ==
    /\ pc \in {"returned", "raised"}
    /\ pc' = "idle"
    /\ call' = NoCall
    /\ idx' = 0
    /\ cur' = "none"
    /\ result' = Blank
    /\ cached' = NoEntry
    /\ fresh' = NoEntry
    /\ fetched' = FALSE
    /\ wrote' = "none"
    /\ pre' = NoPre
    /\ page' = 0
    /\ collected' = <<>>
    /\ received' = <<>>
    /\ attempt' = 0
    /\ backoff_s' = 0
    /\ slept' = <<>>
    /\ resp' = NoResp
    /\ log' = <<>>
    /\ calls' = 0
    /\ saves' = 0
    /\ UNCHANGED <<focus, repoFile, legacyFile, mtime, now, events, series>>

\* time passes between calls, past the refresh threshold
Tick ==
    /\ pc = "idle"
    /\ now <= refresh_threshold_hours
    /\ now' = now + HoursPerTick
    /\ UNCHANGED <<focus, repoFile, legacyFile, mtime, pc, call, idx, cur,
                   result, cached, fresh, fetched, wrote, pre>>
    /\ UNCHANGED fetchVars
    /\ UNCHANGED ioVars

Next == RangeBegin \/ RangeResolve \/ Return \/ Finish \/ Tick

Spec == Init /\ [][Next]_vars

(***************************************************************************)
(* DataManager.get_data(data_type, owner, repo, force_refresh) and the     *)
(* batch over it, DataManager.get_all_cached_data(owner, repo,             *)
(* force_refresh).                                                         *)
(***************************************************************************)
\* how the one write of _fetch_and_save_data ends for metric t while the data
\* directory takes every write
storage(t) == WriteOutcomes(t, "fresh", FALSE)

\* the effect of one get_data(t) whose outcome is o
GetDataEffect(t, o) ==
    /\ repoFile' = [repoFile EXCEPT ![t] = o.file]
    /\ mtime' = [mtime EXCEPT ![t] = o.mtime]
    /\ SetLocals(t, IF o.fetched \/ o.raised THEN NoEntry ELSE o.df,
                 IF o.fetched /\ ~o.raised THEN o.df ELSE NoEntry, o.fetched,
                 o.wrote)

GetDataBegin ==
    /\ pc = "idle"
    /\ \E force \in BOOLEAN :
        Begin([op |-> "get_data", force |-> force, start |-> 0, end |-> 0,
               token |-> FALSE], "get_data")

\* get_data of the focus metric, its write ending in one of writes
GetDataStep(writes) ==
    /\ pc = "get_data"
    /\ \E o \in get_data_outcomes(focus, call.force, repoFile[focus],
                                  legacyFile[focus], mtime[focus], now,
                                  UpstreamOutcomes(focus), writes) :
          /\ GetDataEffect(focus, o)
          /\ pc' = IF o.raised THEN "raised" ELSE "returned"
          /\ result' = IF o.raised THEN result
                       ELSE [result EXCEPT ![focus] = o.df]
    /\ UNCHANGED <<focus, legacyFile, now, call, idx>>
    /\ UNCHANGED fetchVars
    /\ UNCHANGED ioVars

GetDataResolve ==
    /\ pc = "get_data"
    /\ GetDataStep(storage(focus))

AllBegin ==
    /\ pc = "idle"
    /\ \E force \in BOOLEAN :
        Begin([op |-> "all", force |-> force, start |-> 0, end |-> 0,
               token |-> FALSE], "all")

\* one element of the dict comprehension
AllResolve ==
    /\ pc = "all"
    /\ idx <= Len(types)
    /\ LET t == types[idx]
       IN  \E o \in get_data_outcomes(t, call.force, repoFile[t], legacyFile[t],
                                      mtime[t], now, UpstreamOutcomes(t), storage(t)) :
              /\ GetDataEffect(t, o)
              /\ pc' = IF o.raised THEN "raised" ELSE pc
              /\ idx' = IF o.raised THEN idx ELSE idx + 1
              /\ result' = IF o.raised THEN result
                           ELSE [result EXCEPT ![t] = o.df]
    /\ UNCHANGED <<focus, legacyFile, now, call>>
    /\ UNCHANGED fetchVars
    /\ UNCHANGED ioVars

NextGet ==
    GetDataBegin \/ GetDataResolve \/ AllBegin \/ AllResolve \/ Return
    \/ Finish \/ Tick

SpecGet == Init /\ [][NextGet]_vars

(***************************************************************************)
(* app.get_data(owner, repo, force_refresh): the dashboard's data load.    *)
(* token is has_github_token, whether GITHUB_TOKEN is set.                 *)
(***************************************************************************)
AppBegin ==
    /\ pc = "idle"
    /\ \E force \in BOOLEAN, token \in BOOLEAN :
        Begin([op |-> "app", force |-> force, start |-> 0, end |-> 0,
               token |-> token], "app")

\* the metric's entry is df; nothing is written by the app itself
AppEntry(t, df, c, fr, f) ==
    /\ result' = [result EXCEPT ![t] = df]
    /\ SetLocals(t, c, fr, f, "none")
    /\ UNCHANGED <<repoFile, mtime>>

\* dm.get_data(metric_type, owner, repo, force_refresh=True) returned o.df
AppFetched(t, o) ==
    /\ result' = [result EXCEPT ![t] = o.df]
    /\ GetDataEffect(t, o)

\* dm.fetcher.<metric>_fetcher.fetch(owner, repo), inside the outer try
AppManualFetch(t, c) ==
    \E u \in UpstreamOutcomes(t) :
        IF u.raised THEN AppEntry(t, app_empty(t), c, NoEntry, TRUE)
        ELSE AppEntry(t, u.df, c, u.df, TRUE)

\* one pass of the loop of the forced branch
AppForced(t) ==
    \E o \in get_data_outcomes(t, TRUE, repoFile[t], legacyFile[t], mtime[t],
                               now, UpstreamOutcomes(t), storage(t)) :
        IF o.raised THEN AppEntry(t, app_empty(t), NoEntry, NoEntry, TRUE)
        ELSE AppFetched(t, o)

\* one pass of the loop of the cache-first branch
AppCacheFirst(t) ==
    LET c == get_for(t, repoFile[t], legacyFile[t])
    IN  IF c.raised THEN AppEntry(t, app_empty(t), NoEntry, NoEntry, FALSE)
        ELSE IF c.df.rows # <<>> THEN AppEntry(t, c.df, c.df, NoEntry, FALSE)
        ELSE IF call.token
        THEN \E o \in get_data_outcomes(t, TRUE, repoFile[t], legacyFile[t],
                                        mtime[t], now, UpstreamOutcomes(t), storage(t)) :
                IF o.raised THEN AppManualFetch(t, c.df) ELSE AppFetched(t, o)
        ELSE AppManualFetch(t, c.df)

AppResolve ==
    /\ pc = "app"
    /\ idx <= Len(types)
    /\ IF call.force THEN AppForced(types[idx]) ELSE AppCacheFirst(types[idx])
    /\ idx' = idx + 1
    /\ UNCHANGED <<focus, legacyFile, now, pc, call>>
    /\ UNCHANGED fetchVars
    /\ UNCHANGED ioVars

NextApp == AppBegin \/ AppResolve \/ Return \/ Finish \/ Tick

SpecApp == Init /\ [][NextApp]_vars

(***************************************************************************)
(* The calls that write, get_all_cached_data_for_range and get_data, over  *)
(* a data directory that may refuse a write (full, read-only, removed):    *)
(* to_csv raises inside the try/except around it.                          *)
(***************************************************************************)
RangeResolveFailing ==
    /\ pc = "range"
    /\ idx <= Len(types)
    /\ RangeStep(UpstreamOutcomes(types[idx]), TRUE)

GetDataResolveFailing ==
    /\ pc = "get_data"
    /\ GetDataStep(WriteOutcomes(focus, "fresh", TRUE))

NextStorage ==
    RangeBegin \/ RangeResolveFailing \/ GetDataBegin \/ GetDataResolveFailing
    \/ Return \/ Finish

SpecStorage == Init /\ [][NextStorage]_vars

(***************************************************************************)
(* The cache reads on their own: DataLoader.get_for and DataLoader.get on  *)
(* whatever the two files of a metric hold.                                *)
(***************************************************************************)
\* the contents a cache file is read in: absent, zero-length, untokenizable,
\* another schema, header only, one row, rows out of order, a date that does
\* not parse
LoaderFiles(t) ==
    {Absent, ZeroLength, Garbled, BadSchema,
     Csv(expected_cols(t), <<>>),
     Csv(expected_cols(t), <<<<1, 1>>>>),
     Csv(expected_cols(t), <<<<2, 2>>, <<1, 1>>>>),
     Csv(expected_cols(t), <<<<NaT, 1>>, <<1, 2>>>>)}

InitLoader ==
    /\ focus \in Types
    /\ \E f \in LoaderFiles(focus) :
         repoFile = [t \in Types |-> IF t = focus THEN f ELSE Absent]
    /\ \E f \in LoaderFiles(focus) :
         legacyFile = [t \in Types |-> IF t = focus THEN f ELSE Absent]
    /\ events = <<>>
    /\ InitCommon

\* a read that came back with o
LoaderOutcome(t, o) ==
    /\ pc' = IF o.raised THEN "raised" ELSE "returned"
    /\ result' = IF o.raised THEN result ELSE [result EXCEPT ![t] = o.df]
    /\ SetLocals(t, NoEntry, NoEntry, FALSE, "none")
    /\ UNCHANGED <<focus, repoFile, legacyFile, mtime, now, idx>>
    /\ UNCHANGED fetchVars
    /\ UNCHANGED ioVars

LoaderGetFor ==
    /\ pc = "idle"
    /\ call' = [NoCall EXCEPT !.op = "get_for"]
    /\ \E t \in Types : LoaderOutcome(t, get_for(t, repoFile[t], legacyFile[t]))

LoaderGet ==
    /\ pc = "idle"
    /\ call' = [NoCall EXCEPT !.op = "get"]
    /\ \E t \in Types : \E o \in get(t, legacyFile[t]) : LoaderOutcome(t, o)

NextLoader == LoaderGetFor \/ LoaderGet \/ Finish

SpecLoader == InitLoader /\ [][NextLoader]_vars

(***************************************************************************)
(* Range calls against one repository: what the hosting API holds for the  *)
(* focus metric stays the same from call to call, and a fetch returns its  *)
(* reduction or raises.                                                    *)
(***************************************************************************)
InitRepo ==
    /\ focus \in Types
    /\ \E f \in {Absent, ZeroLength, BadSchema} :
         repoFile = [t \in Types |-> IF t = focus THEN f ELSE Absent]
    /\ \E f \in {Absent, LegacySeries(focus)} :
         legacyFile = [t \in Types |-> IF t = focus THEN f ELSE Absent]
    /\ events \in Payloads(focus)
    /\ InitCommon

\* what a fetch of metric t comes back with when the API holds `events`
RepoOutcomes(t) ==
    IF t = focus THEN {Raise, Ok(fetch(t, events))} ELSE {Ok(fetch(t, <<>>))}

RangeResolveRepo ==
    /\ pc = "range"
    /\ idx <= Len(types)
    /\ RangeStep(RepoOutcomes(types[idx]), FALSE)

NextRepo == RangeBegin \/ RangeResolveRepo \/ Return \/ Finish \/ Tick

SpecRepo == InitRepo /\ [][NextRepo]_vars

(***************************************************************************)
(* The paginated fetchers on their own (fetchers/github_fetcher.py):       *)
(* StarsFetcher, ForksFetcher, PRsFetcher and IssuesFetcher, over REST     *)
(* (fetch, through BaseFetcher._request) and over GraphQL (fetch_graphql,  *)
(* through GitHubGraphQL.query).  The focus metric is the one fetched.     *)
(***************************************************************************)
\* the metric types fetched page by page
Paginated == {"stars", "forks", "prs", "issues"}

\* page size and page caps, scaled down to the model's event lists: per_page
\* is 100, max_pages 1000, the pages of IssuesFetcher.fetch 20, the queries of
\* a fetch_graphql 200 and of IssuesFetcher.fetch_graphql 10 in the source;
\* the early exits of the issues loops are at more than 1000 and 500 dates
MaxListed == 2
per_page == 1
max_pages == 3
issues_max_pages == 2
graphql_max_queries == 2
issues_graphql_max_queries == 1
issues_enough == 1
issues_graphql_enough == 1

\* BaseFetcher._request: attempts, first backoff, cap of the backoff, cap of
\* the wait for the rate limit's reset
max_retries == 3
first_backoff_s == 2
backoff_cap_s == 5
reset_wait_cap_s == 10

\* the statuses a REST request is answered with: success, rate limit, server
\* error, not found
Statuses == {200, 403, 500, 404}

\* the statuses the GraphQL endpoint answers with
GraphqlStatuses == {200, 500}

\* a wait for the reset that is not capped: the reset is a minute away
ResetWaitsUncapped == {1, 60}

\* min(max(0, int(reset) - now) + 1, 10) for the X-RateLimit-Reset header a
\* 403 may carry: a reset that is due, a reset ten seconds away or more
ResetWaits == {1, reset_wait_cap_s}

\* what the hosting API lists for metric t: the creation date of each event,
\* NaT for one _to_date returns None for; the issues listing carries the pull
\* requests too, flagged (<<date, is a pull request>>)
Listings(t) ==
    IF t = "issues" THEN SeqsUpTo((Dates \cup {NaT}) \X BOOLEAN, MaxListed)
    ELSE SeqsUpTo(Dates \cup {NaT}, MaxListed)

\* _to_date over the timestamps of a page: those that parse
to_dates(stamps) == SelectSeq(stamps, LAMBDA d : d # NaT)

\* the `for it in items` loop of a REST fetch: the timestamps it appends
rest_dates(t, items) ==
    IF t = "issues" THEN to_dates(issue_dates(items)) ELSE to_dates(items)

\* page p of the REST listing, per_page items a page
rest_items(p) ==
    SubSeq(events, (p - 1) * per_page + 1, Min({p * per_page, Len(events)}))

\* an issues loop that runs over self.max_pages as the other three do
rest_pages_shared(t) == max_pages

\* range(1, max_pages + 1) of the REST loop of metric t
rest_pages(t) == IF t = "issues" THEN issues_max_pages ELSE max_pages

\* the connection a fetch_graphql pages through: the issues connection holds
\* no pull request
connection(t) ==
    IF t = "issues" THEN issue_dates(events) ELSE events

\* the field of the connection the query of metric t selects
selected(t) == IF t = "stars" THEN "edges" ELSE "nodes"

\* the field of the connection fetch_graphql of metric t reads
read_field(t) == IF t \in {"stars", "issues"} THEN "edges" ELSE "nodes"

\* the `for e in edges` / `for n in nodes` loop: `sg.get(field) or []` is
\* empty when the response carries the other field
graphql_dates(t, items) ==
    IF read_field(t) = selected(t) THEN to_dates(items) ELSE <<>>

\* range(200), range(max_pages) of the GraphQL loop of metric t
graphql_queries(t) ==
    IF t = "issues" THEN issues_graphql_max_queries ELSE graphql_max_queries

\* the frame a paginated fetcher builds from `dates` after its loop
reduce(t, ds) ==
    IF t \in {"stars", "forks"} THEN cumulative_fetch(t, ds) ELSE daily_fetch(t, ds)

InitFetch ==
    /\ focus \in Paginated
    /\ events \in Listings(focus)
    /\ repoFile = [t \in Types |-> Absent]
    /\ legacyFile = [t \in Types |-> Absent]
    /\ InitCommon

\* GitHubFetcher.fetch_all picks the transport by P16_USE_GRAPHQL and calls
\* the fetcher of the metric
FetchBegin ==
    /\ pc = "idle"
    /\ \E use_graphql \in BOOLEAN :
        /\ call' = [NoCall EXCEPT !.op = IF use_graphql THEN "fetch_graphql" ELSE "fetch"]
        /\ pc' = IF use_graphql THEN "query" ELSE "request"
    /\ cur' = focus
    /\ page' = 1
    /\ attempt' = 0
    /\ backoff_s' = first_backoff_s
    /\ UNCHANGED <<focus, repoFile, legacyFile, mtime, now, idx, result, cached,
                   fresh, fetched, wrote, pre, events, collected, received,
                   slept, resp, log, series>>
    /\ UNCHANGED ioVars

\* _request returns r to the page loop
RequestReturns(r) ==
    /\ resp' = r
    /\ pc' = "page"

\* one pass of the retry loop of _request: requests.get, then a sleep and
\* another pass on a 403, the response returned on anything else or on the
\* last attempt; an exception of requests.get leaves the fetch.  items is
\* what the API lists on the page asked for
RequestStep(items) ==
    /\ \/ /\ pc' = "raised"
          /\ UNCHANGED <<attempt, backoff_s, slept, resp>>
       \/ \E status \in Statuses \ {403} :
            /\ RequestReturns([status |-> status,
                               items |-> IF status = 200 THEN items ELSE <<>>,
                               hasNextPage |-> FALSE])
            /\ attempt' = attempt + 1
            /\ UNCHANGED <<backoff_s, slept>>
       \/ \E wait_s \in ResetWaits \cup {0} :
            /\ attempt' = attempt + 1
            /\ IF wait_s = 0
               THEN /\ slept' = Append(slept, Min({backoff_s, backoff_cap_s}))
                    /\ backoff_s' = Min({backoff_s * 2, backoff_cap_s})
               ELSE /\ slept' = Append(slept, wait_s)
                    /\ UNCHANGED backoff_s
            /\ IF attempt + 1 = max_retries
               THEN RequestReturns([status |-> 403, items |-> <<>>,
                                    hasNextPage |-> FALSE])
               ELSE UNCHANGED <<pc, resp>>
    /\ UNCHANGED <<focus, repoFile, legacyFile, mtime, now, call, idx, cur,
                   result, cached, fresh, fetched, wrote, pre, events, page,
                   collected, received, log, series>>
    /\ UNCHANGED ioVars

\* _request of a REST fetch against the listing of the repository
Request ==
    /\ pc = "request"
    /\ RequestStep(rest_items(page))

\* a fetch that gives up what it collected when a page fails
FetchReturnsNothingOnFailure(transport, ds, statuses) ==
    /\ pc' = "returned"
    /\ result' = [result EXCEPT ![focus] =
           IF \A i \in 1..Len(statuses) : statuses[i] = 200
           THEN reduce(focus, ds) ELSE reduce(focus, <<>>)]
    /\ series' = IF \A i \in 1..Len(statuses) : statuses[i] = 200
                 THEN [series EXCEPT ![transport] = reduce(focus, ds)]
                 ELSE series

\* the fetch returns the frame built from ds; a fetch no page of which
\* failed is on record for its transport
FetchReturns(transport, ds, statuses) ==
    /\ pc' = "returned"
    /\ result' = [result EXCEPT ![focus] = reduce(focus, ds)]
    /\ series' = IF \A i \in 1..Len(statuses) : statuses[i] = 200
                 THEN [series EXCEPT ![transport] = reduce(focus, ds)]
                 ELSE series

\* the body of the page loop of a REST fetch after _request returned, whose
\* locals are gone, and the reduction when the loop ends
RestPage ==
    /\ pc = "page"
    /\ LET t == focus
           ok == resp.status = 200
           ds == IF ok THEN collected \o rest_dates(t, resp.items) ELSE collected
           break == \/ ~ok
                    \/ resp.items = <<>>
                    \/ Len(resp.items) < per_page
                    \/ t = "issues" /\ Len(ds) > issues_enough
       IN  /\ collected' = ds
           /\ received' = IF ok THEN received \o resp.items ELSE received
           /\ log' = Append(log, resp.status)
           /\ attempt' = 0
           /\ backoff_s' = first_backoff_s
           /\ slept' = <<>>
           /\ IF break \/ page = rest_pages(t)
              THEN /\ FetchReturns("rest", ds, Append(log, resp.status))
                   /\ UNCHANGED page
              ELSE /\ pc' = "request"
                   /\ page' = page + 1
                   /\ UNCHANGED <<result, series>>
    /\ UNCHANGED <<focus, repoFile, legacyFile, mtime, now, call, idx, cur,
                   cached, fresh, fetched, wrote, pre, events, resp>>
    /\ UNCHANGED ioVars

\* one pass of the loop of a fetch_graphql: GitHubGraphQL.query, which
\* answers {} to a non-200, then the dates of the page, then the cursor; an
\* exception of requests.post leaves the fetch.  listed is the page of the
\* connection after the cursor, more whether the API reports another one
GraphqlStep(listed, more) ==
    /\ \/ /\ pc' = "raised"
          /\ UNCHANGED <<page, collected, received, resp, log, result, series>>
       \/ \E status \in GraphqlStatuses :
            LET t == focus
                ok == status = 200
                items == IF ok THEN listed ELSE <<>>
                hasNextPage == ok /\ more
                ds == collected \o graphql_dates(t, items)
                break == \/ ~hasNextPage
                         \/ t = "issues" /\ Len(ds) > issues_graphql_enough
            IN  /\ resp' = [status |-> status, items |-> items,
                            hasNextPage |-> hasNextPage]
                /\ collected' = ds
                /\ received' = received \o items
                /\ log' = Append(log, status)
                /\ IF break \/ page = graphql_queries(t)
                   THEN /\ FetchReturns("graphql", ds, Append(log, status))
                        /\ UNCHANGED page
                   ELSE /\ page' = page + 1
                        /\ UNCHANGED <<pc, result, series>>
    /\ UNCHANGED <<focus, repoFile, legacyFile, mtime, now, call, idx, cur,
                   cached, fresh, fetched, wrote, pre, events, attempt,
                   backoff_s, slept>>
    /\ UNCHANGED ioVars

\* a query of a fetch_graphql against the connection of the repository
GraphqlPage ==
    /\ pc = "query"
    /\ LET conn == connection(focus)
       IN  GraphqlStep(SubSeq(conn, (page - 1) * per_page + 1,
                              Min({page * per_page, Len(conn)})),
                       page * per_page < Len(conn))

NextFetch == FetchBegin \/ Request \/ RestPage \/ GraphqlPage \/ Finish

SpecFetch == InitFetch /\ [][NextFetch]_vars

(***************************************************************************)
(* The same fetchers against an upstream that answers as it likes: every   *)
(* page may be full, every query may report another page.  The fetch is    *)
(* sequential code, so the step it is at is taken sooner or later.         *)
(***************************************************************************)
\* what the upstream may answer with, whatever page is asked for: none, some
\* or per_page of the items it lists
AnyPage(listed) ==
    {SubSeq(listed, 1, k) : k \in 0..Min({per_page, Len(listed)})}

\* the loops are steered by the length of a page, by whether a timestamp
\* parses and by whether an issue is a pull request, never by the day: the
\* events listed are all of the first day or do not parse
InitPages ==
    /\ focus \in Paginated
    /\ events \in IF focus = "issues"
                  THEN SeqsUpTo({1, NaT} \X BOOLEAN, MaxListed)
                  ELSE SeqsUpTo({1, NaT}, MaxListed)
    /\ repoFile = [t \in Types |-> Absent]
    /\ legacyFile = [t \in Types |-> Absent]
    /\ InitCommon

\* _request of a REST fetch, answered with any page
RequestAny ==
    /\ pc = "request"
    /\ \E items \in AnyPage(events) : RequestStep(items)

\* a query of a fetch_graphql, answered with any page and any hasNextPage
QueryAny ==
    /\ pc = "query"
    /\ \E listed \in AnyPage(connection(focus)), more \in BOOLEAN :
          GraphqlStep(listed, more)

\* one fetch, from the call to its return or its exception
NextPages == FetchBegin \/ RequestAny \/ RestPage \/ QueryAny

SpecPages ==
    /\ InitPages
    /\ [][NextPages]_vars
    /\ WF_vars(RequestAny)
    /\ WF_vars(RestPage)
    /\ WF_vars(QueryAny)

(***************************************************************************)
(* DataManager.get_data_status(), next to the get_data calls that create   *)
(* and age the files it would report on.                                   *)
(***************************************************************************)
\* the attributes DataManager.__init__ sets on the instance
attributes == {"data_dir", "refresh_threshold_hours", "fetcher", "loader", "types"}

\* DataFileInfo(path, exists, age_hours, stale) of the loop body, for the file
\* f last modified at m, at time n
DataFileInfo(f, m, n) ==
    IF exists(f)
    THEN [exists |-> TRUE, age_hours |-> n - m,
          stale |-> (n - m) > refresh_threshold_hours]
    ELSE [exists |-> FALSE, age_hours |-> "None", stale |-> TRUE]

\* get_data_status(): `self.type_to_file.items()` is evaluated first, and
\* raises AttributeError when the instance has no such attribute
GetDataStatus ==
    /\ pc = "idle"
    /\ call' = [NoCall EXCEPT !.op = "get_data_status"]
    /\ IF "type_to_file" \in attributes
       THEN /\ pc' = "returned"
            /\ result' = [t \in Types |-> DataFileInfo(repoFile[t], mtime[t], now)]
       ELSE /\ pc' = "raised"
            /\ UNCHANGED result
    /\ UNCHANGED <<focus, repoFile, legacyFile, mtime, now, idx, cur, cached,
                   fresh, fetched, wrote, pre>>
    /\ UNCHANGED fetchVars
    /\ UNCHANGED ioVars

NextStatus == GetDataBegin \/ GetDataResolve \/ GetDataStatus \/ Finish \/ Tick

SpecStatus == Init /\ [][NextStatus]_vars

(***************************************************************************)
(* get_all_cached_data_for_range taken one call at a time: the read and    *)
(* the decision, then _fetch_and_save_data (the fetch and the write of the *)
(* fetched frame), then the merge and the write of the merged frame.  The  *)
(* file is on disk between the steps, for a reader or a crash to find.     *)
(***************************************************************************)
\* lines 104-134: read the cache of the metric and decide
RangeRead ==
    /\ pc = "range"
    /\ idx <= Len(types)
    /\ LET t == types[idx]
           c == load_cached(t, repoFile[t], legacyFile[t])
           stale == is_data_stale(repoFile[t], mtime[t], now)
       IN  IF c.raised
           THEN Raises /\ SetLocals(t, NoEntry, NoEntry, FALSE, "none")
           ELSE IF need_fetch(c.df, call.force, call.start, call.end, stale)
           THEN /\ pc' = "fetch"
                /\ SetLocals(t, c.df, NoEntry, FALSE, "none")
                /\ UNCHANGED <<repoFile, mtime, result, idx>>
           ELSE /\ result' = [result EXCEPT ![t] = c.df]
                /\ idx' = idx + 1
                /\ SetLocals(t, c.df, NoEntry, FALSE, "none")
                /\ UNCHANGED <<repoFile, mtime, pc>>
    /\ calls' = 0
    /\ saves' = 0
    /\ UNCHANGED <<focus, legacyFile, now, call>>
    /\ UNCHANGED fetchVars

\* line 138: fresh = self._fetch_and_save_data(t, owner, repo), which calls
\* the fetcher and writes what it returned to the metric's file
RangeFetchSave ==
    /\ pc = "fetch"
    /\ calls' = calls + 1
    /\ fetched' = TRUE
    /\ \E u \in UpstreamOutcomes(cur) :
         IF u.raised
         THEN /\ pc' = "raised"
              /\ UNCHANGED <<repoFile, mtime, fresh, wrote, saves>>
         ELSE LET fr == select_expected(cur, u.df)
              IN  /\ pc' = "merge"
                  /\ fresh' = fr
                  /\ repoFile' = [repoFile EXCEPT ![cur] = to_csv(fr)]
                  /\ mtime' = [mtime EXCEPT ![cur] = now]
                  /\ wrote' = "fresh"
                  /\ saves' = saves + 1
    /\ UNCHANGED <<focus, legacyFile, now, call, idx, cur, result, cached, pre>>
    /\ UNCHANGED fetchVars

\* lines 139-152: merge, write the merged frame, store it in the result
RangeMergeSave ==
    /\ pc = "merge"
    /\ LET merged == merge(cached, fresh)
       IN  /\ repoFile' = [repoFile EXCEPT ![cur] = to_csv(merged)]
           /\ mtime' = [mtime EXCEPT ![cur] = now]
           /\ result' = [result EXCEPT ![cur] = merged]
    /\ wrote' = "merged"
    /\ saves' = saves + 1
    /\ idx' = idx + 1
    /\ pc' = "range"
    /\ UNCHANGED <<focus, legacyFile, now, call, cur, cached, fresh, fetched,
                   pre, calls>>
    /\ UNCHANGED fetchVars

NextSteps ==
    RangeBegin \/ RangeRead \/ RangeFetchSave \/ RangeMergeSave \/ Return
    \/ Finish \/ Tick

SpecSteps == Init /\ [][NextSteps]_vars

(***************************************************************************)
(* The reductions on their own: what the fetcher of a metric makes of any  *)
(* list of items a 200 response may carry.                                 *)
(***************************************************************************)
\* any list of items for metric t: for contributions any list of weekly
\* buckets, two of which may start on the same day
AnyPayloads(t) ==
    IF t = "contributions" THEN SeqsUpTo(Dates \X DayLists, MaxEvents)
    ELSE Payloads(t)

InitReduce ==
    /\ focus \in Types
    /\ events \in AnyPayloads(focus)
    /\ repoFile = [t \in Types |-> Absent]
    /\ legacyFile = [t \in Types |-> Absent]
    /\ InitCommon

\* the fetcher of the focus metric turns the items into its frame
FetcherReduce ==
    /\ pc = "idle"
    /\ pc' = "returned"
    /\ call' = [NoCall EXCEPT !.op = "reduce"]
    /\ cur' = focus
    /\ result' = [result EXCEPT ![focus] = fetch(focus, events)]
    /\ UNCHANGED <<focus, repoFile, legacyFile, mtime, now, idx, cached, fresh,
                   fetched, wrote, pre>>
    /\ UNCHANGED fetchVars
    /\ UNCHANGED ioVars

NextReduce == FetcherReduce \/ Finish

SpecReduce == InitReduce /\ [][NextReduce]_vars

(***************************************************************************)
(* Properties.                                                             *)
(***************************************************************************)
\* the series a repository-specific file f holds for metric t: its rows with
\* a date that parses, by date, when it is a table with the metric's columns
stored(t, f) ==
    IF f.kind = "csv" /\ has_expected(t, f) THEN parse_dates(f).rows ELSE <<>>

ValuesAt(rows, d) == {Value(rows[i]) : i \in {j \in 1..Len(rows) : Date(rows[j]) = d}}

StrictlyAscending(rows) ==
    \A i \in 1..(Len(rows) - 1) : Date(rows[i]) < Date(rows[i + 1])

\* a metric of a range call was resolved with a fetch that returned
RangeFetched ==
    call.op = "range" /\ cur # "none" /\ pc # "raised" /\ fetched

\* C1: in get_all_cached_data_for_range, when a fetch occurs and the
\* non-empty cached series and the fetched series both have a row for a
\* date, the merged series, returned and persisted, carries the fetched
\* value for that date.
C1_FreshValueWinsOnCollision ==
    (RangeFetched /\ cached.rows # <<>>) =>
        \A d \in DatesOf(cached.rows) \cap DatesOf(fresh.rows) :
            /\ ValuesAt(result[cur].rows, d) = ValuesAt(fresh.rows, d)
            /\ ValuesAt(repoFile[cur].rows, d) = ValuesAt(fresh.rows, d)

C3_EmptyRefreshReturnsCached ==
    (RangeFetched /\ call.force /\ fresh.rows = <<>>
        /\ stored(cur, pre.file) # <<>>) =>
        result[cur].rows = stored(cur, pre.file)

\* C4: in DataManager.get_data with force_refresh, when the fetch returns an
\* empty series while the cache file held a non-empty series, the call
\* returns the series the cache held and the file still holds it afterwards.
C4_FailedRefreshKeepsData ==
    (call.op \in {"get_data", "all"} /\ cur # "none" /\ pc # "raised"
        /\ call.force /\ fetched /\ fresh.rows = <<>>
        /\ stored(cur, pre.file) # <<>>) =>
        /\ result[cur].rows = stored(cur, pre.file)
        /\ stored(cur, repoFile[cur]) = stored(cur, pre.file)

\* the condition C5 gives for a fetch of the metric resolved last: forced, or
\* the file missing or read as an empty series, or the cached dates short of
\* the request, or the file older than the threshold
C5_Condition ==
    LET r == get_for(cur, pre.file, legacyFile[cur])
    IN  \/ call.force
        \/ ~exists(pre.file)
        \/ ~r.raised /\ r.df.rows = <<>>
        \/ /\ ~r.raised
           /\ r.df.rows # <<>>
           /\ (MinDate(r.df.rows) > call.start \/ MaxDateOf(r.df.rows) < call.end)
        \/ (now - pre.mtime) > refresh_threshold_hours

\* C5: in get_all_cached_data_for_range, an upstream fetch is performed for
\* a metric if and only if force_refresh is true, or the cache file is
\* missing or reads as empty, or the cached dates do not span the request, or
\* the file's age exceeds refresh_threshold_hours.
C5_FetchIffCondition ==
    (call.op = "range" /\ cur # "none") => (fetched <=> C5_Condition)

\* C6: in get_all_cached_data_for_range without force_refresh, when the cache
\* holds a non-empty series that covers the requested range and is not older
\* than the threshold, no fetch occurs, the cached series is returned as it
\* is, and the file's content and modification time stay as they were.
C6_FreshHitLeavesCache ==
    (call.op = "range" /\ cur # "none" /\ ~call.force
        /\ stored(cur, pre.file) # <<>>
        /\ MinDate(stored(cur, pre.file)) <= call.start
        /\ MaxDateOf(stored(cur, pre.file)) >= call.end
        /\ (now - pre.mtime) <= refresh_threshold_hours) =>
        /\ ~fetched
        /\ pc # "raised"
        /\ result[cur].rows = stored(cur, pre.file)
        /\ repoFile[cur] = pre.file
        /\ mtime[cur] = pre.mtime

\* C7: in a batch over the six metric types, an error raised while one metric
\* is resolved does not abort the batch: no exception leaves
\* get_all_cached_data_for_range or get_all_cached_data.
C7_BatchNeverAborts ==
    call.op \in {"range", "all"} => pc # "raised"

\* C8: app.get_data, forced or not, never raises, and what it returns has,
\* for each of the six metric types, a series with the metric's date and
\* value columns.
C8_AppAlwaysReturnsSchema ==
    call.op = "app" =>
        /\ pc # "raised"
        /\ pc = "returned" =>
             \A t \in Types : result[t] # NoEntry /\ has_expected(t, result[t])
        /\ \A t \in Types : result[t] # NoEntry => has_expected(t, result[t])

\* the load returned although the cache read of a metric raised (a
\* zero-length file) on the cache-first branch
C8_Witness ==
    /\ call.op = "app"
    /\ pc = "returned"
    /\ ~call.force
    /\ repoFile[focus].kind = "zero"
    /\ focus = "prs"
    /\ result[focus] = EmptyFrame(<<"date", "pr_count">>)

\* C9: a cache read, DataLoader.get_for or DataLoader.get, never raises,
\* whatever the files hold.
C9_CacheReadNeverRaises ==
    call.op \in {"get_for", "get"} => pc # "raised"

\* the pair of columns C10 lists for each metric type
C10_Pair(t) ==
    CASE t = "stars" -> <<"date", "stars">>
      [] t = "forks" -> <<"date", "forks">>
      [] t = "prs" -> <<"date", "pr_count">>
      [] t = "downloads" -> <<"date", "downloads">>
      [] t = "issues" -> <<"date", "issues">>
      [] t = "contributions" -> <<"date", "commits">>

\* C10: for every metric type, a cache read when neither the
\* repository-specific file nor the legacy file exists returns an empty
\* series whose columns are exactly the metric's pair.
C10_AbsentReadsEmptySchema ==
    (call.op \in {"get_for", "get"} /\ pc = "returned"
        /\ ~exists(repoFile[cur]) /\ ~exists(legacyFile[cur])) =>
        result[cur] = [columns |-> C10_Pair(cur), rows |-> <<>>]

\* a read of the pull-requests metric with both files absent returned
C10_Witness ==
    /\ call.op = "get_for"
    /\ pc = "returned"
    /\ cur = "prs"
    /\ ~exists(repoFile[cur])
    /\ ~exists(legacyFile[cur])
    /\ result[cur].rows = <<>>

\* C11: DataLoader.get_for returns the rows of the repository-specific file
\* whenever that file exists with the metric's columns, however many rows it
\* holds; the legacy file is read only when the repository-specific one is
\* absent.
C11_RepoFilePreferred ==
    (call.op = "get_for" /\ pc = "returned" /\ repoFile[cur].kind = "csv"
        /\ has_expected(cur, repoFile[cur])) =>
        result[cur].rows = stored(cur, repoFile[cur])

\* C12: after get_all_cached_data_for_range fetched a metric and wrote the
\* merged series, a cache read of the metric returns exactly the rows the
\* call returned, a single row included.
C12_ReadBackReturnsMerged ==
    (RangeFetched /\ wrote = "merged") =>
        LET r == get_for(cur, repoFile[cur], legacyFile[cur])
        IN  ~r.raised /\ r.df.rows = result[cur].rows

NonDecreasing(rows) ==
    \A i \in 1..(Len(rows) - 1) : Value(rows[i]) <= Value(rows[i + 1])

\* C13: for the cumulative metrics (stars, forks, downloads), every series
\* get_all_cached_data_for_range returns, a merge of cached rows with a
\* later fetch included, has values that do not decrease in date order.
C13_CumulativeNonDecreasing ==
    (call.op = "range" /\ cur \in {"stars", "forks", "downloads"}
        /\ pc # "raised") =>
        NonDecreasing(result[cur].rows)

RECURSIVE SumValues(_)
\* the values of a series, summed
SumValues(rows) ==
    IF rows = <<>> THEN 0 ELSE Value(Head(rows)) + SumValues(Tail(rows))

\* the events of a REST issues listing created on day d that are no pull
\* requests
IssuesOn(items, d) ==
    Cardinality({i \in 1..Len(items) : items[i] = <<d, FALSE>>})

\* C14: the series IssuesFetcher.fetch returns counts, per creation date, the
\* events it received that are not flagged as pull requests: a date has a row
\* exactly when such an event was created on it, the row's value is their
\* number, and the values sum to the number of received events with a
\* parseable creation date and no pull_request field.
C14_IssuesCountNonPullRequests ==
    (pc = "returned" /\ call.op = "fetch" /\ focus = "issues") =>
        LET rows == result[focus].rows
        IN  /\ \A d \in Dates :
                  ValuesAt(rows, d) = IF IssuesOn(received, d) = 0 THEN {}
                                      ELSE {IssuesOn(received, d)}
            /\ SumValues(rows) =
                  Cardinality({i \in 1..Len(received) :
                                  received[i][1] # NaT /\ ~received[i][2]})

\* an issues fetch returned after it received a pull request and an issue
C14_Witness ==
    /\ pc = "returned" /\ call.op = "fetch" /\ focus = "issues"
    /\ \E i, j \in 1..Len(received) :
          received[i][2] /\ ~received[j][2] /\ received[j][1] # NaT

\* C15: over the same upstream events, fetch (REST) and fetch_graphql return
\* the same per-date series for each of stars, forks, prs and issues: once
\* both transports have returned from a fetch no page of which failed, the
\* two series are equal.
C15_TransportsAgree ==
    (series.rest # NoEntry /\ series.graphql # NoEntry) =>
        series.rest = series.graphql

\* the days of the events of a REST listing of metric t that its fetcher
\* counts: the creation date parses and, for issues, the event is no pull
\* request
CountedDays(t, items) ==
    LET counted == {i \in 1..Len(items) :
                      IF t = "issues" THEN items[i][1] # NaT /\ ~items[i][2]
                      ELSE items[i] # NaT}
    IN  [i \in counted |-> IF t = "issues" THEN items[i][1] ELSE items[i]]

\* the value the series of metric t holds for day d when it aggregates the
\* events of items: the events of the day, or for a cumulative metric the
\* events up to the day
Aggregated(t, items, d) ==
    LET days == CountedDays(t, items)
    IN  Cardinality({i \in DOMAIN days :
                        IF t \in {"stars", "forks"} THEN days[i] <= d ELSE days[i] = d})

\* C16: when a REST fetch of stars, forks, prs or issues is answered a non-200
\* (or a 403 on the last retry) on a page after the first, it returns, and
\* the series it returns is the one aggregated from the events of the pages it
\* had received: a row for each day one of them counts for, with the
\* aggregated value, so not empty when one of them counts.  It does not raise.
C16_PartialResultOnFailedPage ==
    (call.op = "fetch" /\ Len(log) > 1 /\ log[Len(log)] # 200) =>
        LET rows == result[focus].rows
            days == CountedDays(focus, received)
        IN  /\ pc = "returned"
            /\ result[focus].columns = expected_cols(focus)
            /\ DatesOf(rows) = {days[i] : i \in DOMAIN days}
            /\ StrictlyAscending(rows)
            /\ \A k \in 1..Len(rows) :
                  Value(rows[k]) = Aggregated(focus, received, Date(rows[k]))
            /\ (DOMAIN days # {}) => rows # <<>>

\* a fetch returned a series after its second page ran out of retries
C16_Witness ==
    /\ call.op = "fetch" /\ pc = "returned"
    /\ Len(log) > 1 /\ log[Len(log)] = 403
    /\ result[focus].rows # <<>>

\* C17: a transient upstream failure, a rate-limit response (403) or a 5xx
\* response, is retried with capped backoff before the fetch degrades: when
\* _request hands such a response to the page loop, it has made more than one
\* attempt and slept before each retry, never longer than the cap.
C17_TransientFailureRetried ==
    (pc = "page" /\ resp.status \in {403, 500}) =>
        /\ attempt > 1
        /\ Len(slept) >= attempt - 1
        /\ \A i \in 1..Len(slept) : slept[i] <= reset_wait_cap_s

\* C18: when a write to the cache fails during a resolution that fetched, in
\* _fetch_and_save_data or in the merged write of
\* get_all_cached_data_for_range, the call still returns the in-memory result
\* and the metric's cache file holds what it held before the resolution began.
C18_FailedWriteKeepsCache ==
    /\ (RangeFetched /\ wrote # "merged") =>
          /\ result[cur] = merge(cached, fresh)
          /\ repoFile[cur] = pre.file
    /\ (call.op = "get_data" /\ pc = "returned" /\ fetched /\ wrote = "none") =>
          /\ result[cur] = fresh
          /\ repoFile[cur] = pre.file

\* C19: a repository-specific cache file that exists but lacks the metric's
\* required columns is a cache miss: get_data and
\* get_all_cached_data_for_range fetch from upstream when they resolve such a
\* metric, whatever the file's age and whether or not a legacy file exists.
C19_SchemaMismatchRefetches ==
    (/\ call.op \in {"get_data", "all", "range"}
     /\ cur # "none"
     /\ pre.file.kind = "csv"
     /\ ~has_expected(cur, pre.file)) => fetched

\* C20: staleness is checked on every dashboard load: in the non-forced path
\* of app.get_data, a metric whose cache file holds a non-empty series and is
\* older than the refresh threshold is fetched from upstream, not served from
\* the cache.
C20_StaleCacheRefetchedOnLoad ==
    (/\ call.op = "app" /\ ~call.force
     /\ cur # "none"
     /\ stored(cur, pre.file) # <<>>
     /\ now - pre.mtime > refresh_threshold_hours) => fetched

\* C21: get_data_status returns, for each of the six metric types, a record
\* with exists, age_hours and stale: exists=false, age_hours=None, stale=true
\* for a missing file, and for an existing file its age and stale exactly when
\* the age is strictly greater than refresh_threshold_hours, as _is_data_stale
\* says.
C21_StatusReportsEveryMetric ==
    (call.op = "get_data_status" /\ pc # "idle") =>
        /\ pc = "returned"
        /\ \A t \in Types :
              /\ result[t].exists = exists(repoFile[t])
              /\ result[t].age_hours =
                    IF exists(repoFile[t]) THEN now - mtime[t] ELSE "None"
              /\ result[t].stale = is_data_stale(repoFile[t], mtime[t], now)

\* C22: resolving one metric of one request makes at most one upstream fetch
\* call and at most one write to that metric's cache file.
C22_OneFetchOneWrite ==
    calls <= 1 /\ saves <= 1

\* C27: while get_all_cached_data_for_range resolves a metric with a fetch,
\* the cache file at every intermediate step holds every date it held before
\* the resolution began: a reader, or a crash, between the write of the
\* fetched series and the write of the merged one finds no date missing.
C27_NoDateMissingMidway ==
    (call.op = "range" /\ pc = "merge") =>
        DatesOf(stored(cur, pre.file)) \subseteq DatesOf(stored(cur, repoFile[cur]))

\* C23: a merge in get_all_cached_data_for_range only appends: a completed
\* resolution whose writes succeeded leaves in the metric's cache file every
\* date the file held before it, each with the value it had.
C23_MergeOnlyAppends ==
    (RangeFetched /\ wrote = "merged") =>
        LET before == stored(cur, pre.file)
            after == stored(cur, repoFile[cur])
        IN  \A i \in 1..Len(before) :
                ValuesAt(after, Date(before[i])) = {Value(before[i])}

\* C24: every series a fetcher's reduction produces (stars, forks, prs,
\* issues, downloads, contributions) has unique, strictly increasing dates and
\* non-negative integer values, for any list of upstream events or weekly
\* commit buckets.
C24_ReducedSeriesWellFormed ==
    (call.op = "reduce" /\ pc = "returned") =>
        LET rows == result[focus].rows
        IN  /\ StrictlyAscending(rows)
            /\ \A i \in 1..Len(rows) : Value(rows[i]) \in Nat

\* C25: one call of _request makes at most 3 HTTP attempts, retries only
\* after a 403, waits between 1 and 10 seconds after each 403 (2, then 4, then
\* 5 seconds when no X-RateLimit-Reset header is given), and once the
\* attempts are used up returns the last response instead of raising.
C25_RequestBounded ==
    call.op = "fetch" =>
        /\ attempt <= 3
        /\ \A i \in 1..Len(slept) : slept[i] \in 1..10
        /\ (\A i \in 1..Len(slept) : slept[i] \notin ResetWaits) =>
              slept = SubSeq(<<2, 4, 5>>, 1, Len(slept))
        /\ (pc = "request") => (Len(slept) = attempt /\ attempt < 3)
        /\ (pc = "page" /\ resp.status # 403) => Len(slept) = attempt - 1
        /\ (pc = "page" /\ resp.status = 403) => (attempt = 3 /\ Len(slept) = 3)
        /\ (pc = "raised") => attempt < 3

\* _request came back with the third 403 after backing off 2, 4 and 5 seconds
C25_Witness ==
    call.op = "fetch" /\ pc = "page" /\ resp.status = 403 /\ slept = <<2, 4, 5>>

\* C26: every fetch terminates whatever the upstream answers, also when every
\* page is full and every query reports another page: the REST fetch of stars,
\* forks and prs asks for at most max_pages pages and that of issues for at
\* most its own cap, a fetch_graphql of stars, forks and prs makes at most its
\* cap of queries and that of issues at most its own, and a fetch that has
\* begun returns or raises
C26_FetchTerminates ==
    /\ [](call.op = "fetch" =>
            /\ page <= (IF focus = "issues" THEN issues_max_pages ELSE max_pages)
            /\ Len(log) <= page)
    /\ [](call.op = "fetch_graphql" =>
            /\ page <= (IF focus = "issues" THEN issues_graphql_max_queries
                        ELSE graphql_max_queries)
            /\ Len(log) <= page)
    /\ (pc \in {"request", "page", "query"}) ~> (pc \in {"returned", "raised"})

\* a REST fetch of stars, forks or prs that stopped at the cap after max_pages
\* full pages
C26_Witness ==
    /\ call.op = "fetch"
    /\ focus # "issues"
    /\ pc = "returned"
    /\ page = max_pages
    /\ Len(log) = max_pages
    /\ Len(received) = max_pages * per_page

\* a range resolution of the focus metric that fetched, got an empty series
\* while the cache held rows, and wrote
EmptyRefresh ==
    /\ call.op = "range"
    /\ cur = focus
    /\ fetched
    /\ wrote = "merged"
    /\ fresh.rows = <<>>
    /\ cached.rows # <<>>

UpstreamDates == DatesOf(fetch(focus, events).rows)

\* the API's latest date is before the end of the request, or its earliest
\* date after the start
UpstreamShort ==
    /\ UpstreamDates # {}
    /\ \/ \A d \in UpstreamDates : d < call.end
       \/ \A d \in UpstreamDates : d > call.start

\* C29: when the latest date the API can provide for a metric is before the
\* requested end (or its earliest date after the requested start), every
\* range call for that range fetches the metric, however young the file is:
\* no such request is answered from the cache
C29_ShortUpstreamAlwaysFetches ==
    (/\ call.op = "range"
     /\ cur = focus
     /\ pc \in {"range", "returned"}
     /\ UpstreamShort)
    => fetched

\* C30: the repository-specific file of a metric holds only rows its own
\* fetches returned or rows it held before; no row of the legacy file is
\* written into it
C30_NoLegacyRowPersisted ==
    repoFile[focus].kind = "csv" =>
        Range(repoFile[focus].rows) \subseteq
            Range(fetch(focus, events).rows) \cup Range(BadSchema.rows)
====
